---- MODULE Spec2Model ----
(***************************************************************************)
(* OplogReplayer: replays the oplog of a source replica set into a         *)
(* destination mongo, keeping the timestamp of the last replayed oplog in  *)
(* oplogreplay.settings on the destination.                                *)
(*                                                                         *)
(* The oplog is a sequence of records; a record's ts is its position       *)
(* (1, 2, ...), None (0) is "no ts".  A collection maps _id to the         *)
(* document's content, or to Absent.                                       *)
(***************************************************************************)
EXTENDS Integers, Sequences, FiniteSets, TLC

\* ------------------------------------------------------------------ bounds
MaxOps == 3          \* length of the source oplog
MaxRuns == 2         \* OplogReplayer instances created over one behaviour
MaxOther == 1        \* last oplog position of the other replica set
BulkOps == 200       \* length of the oplog after bulk writes
Ids == {1, 2}
Vals == {"a", "b"}   \* contents of inserted documents
NewContent == "b"    \* the content updates set

\* --------------------------------------------------------------- constants
None == 0
Absent == "absent"
DestStates == {"up", "rejecting", "down"}
LogEvery == 100
SOURCE_REPLICASET == "testsource"
LastTsIds == {"testsource-lastts", "other-lastts"}

VARIABLES
    oplog,          \* source.local.oplog.rs
    sourcedb,       \* the source collection
    dest,           \* the destination collection (self._dest_coll(ns))
    settings,       \* dest.oplogreplay.settings: _id -> value
    deststate,      \* the destination as the last write on it found it:
                    \* "up" | "rejecting" (reachable, writes fail) | "down"
    firstrun,       \* resumeTokenOnFirstRun: "FromBeginning" | "FromNow"
    pc,             \* where the replayer thread is
    running,        \* the stop flag of the watcher
    ts,             \* self.ts
    cur,            \* ts of the record being processed, None between records
    replay_count,   \* self._replay_count
    lastts_id,      \* self._lastts_id
    observations,   \* calls of print_replication_info
    count,          \* CountingOplogReplayer.count, as the list of the ts
                    \* of the records whose process_op returned
    runs,           \* instances created so far
    applied,        \* history: ts of the last record an applier call wrote
    redelivered,    \* history: the last applier call was for a ts <= applied
    firstresume,    \* history: the ts the first run's feed was opened
                    \* after
    failedop,       \* history: ts of the record whose applier call the
                    \* destination refused, until a record is read again
    clean,          \* history: no crash, no raised call, no lost write so far
    skipped,        \* history: a restart opened the feed after records that
                    \* were never applied
    midstream       \* history: the first run had processed a record when it
                    \* was stopped

vars == <<oplog, sourcedb, dest, settings, deststate, firstrun, pc, running,
          ts, cur, replay_count, lastts_id, observations, count, runs,
          applied, redelivered, firstresume, failedop, clean,
          skipped, midstream>>

envvars == <<oplog, sourcedb>>
histvars == <<applied, redelivered, firstresume, failedop, clean,
              skipped, midstream>>

EmptyColl == [i \in Ids |-> Absent]

\* ------------------------------------------------------------ the appliers
\* A write with safe=True returns or raises; R(raised, coll) is its outcome.
R(raised, coll) == [raised |-> raised, coll |-> coll]

\* insert(raw['o'], safe=True): a document whose _id is already in the
\* collection raises DuplicateKeyError.
insert(coll, raw) ==
    IF coll[raw.id] # Absent
    THEN R(TRUE, coll)
    ELSE R(FALSE, [coll EXCEPT ![raw.id] = raw.o])

\* Faulty variant: update sent with upsert=True.
update_upsert(coll, raw) == R(FALSE, [coll EXCEPT ![raw.id] = raw.o])

\* update(raw['o2'], raw['o'], safe=True): o2 is {_id: id}, o is {$set: ...};
\* no upsert, so no match changes nothing.
update(coll, raw) ==
    IF coll[raw.id] = Absent
    THEN R(FALSE, coll)
    ELSE R(FALSE, [coll EXCEPT ![raw.id] = raw.o])

\* Faulty variant: remove with a selector that matches nothing.
delete_nothing(coll, raw) == R(FALSE, coll)

\* Faulty variant: remove that raises when nothing matches.
delete_strict(coll, raw) ==
    IF coll[raw.id] = Absent
    THEN R(TRUE, coll)
    ELSE R(FALSE, [coll EXCEPT ![raw.id] = Absent])

\* remove(raw['o'], safe=True): o is {_id: id}.
delete(coll, raw) == R(FALSE, [coll EXCEPT ![raw.id] = Absent])

\* OplogWatcher.process_op: the applier matching the operation kind; a kind
\* that is none of the three is an error that ends the run.
apply_op(coll, raw) ==
    CASE raw.op = "i" -> insert(coll, raw)
      [] raw.op = "u" -> update(coll, raw)
      [] raw.op = "d" -> delete(coll, raw)
      [] OTHER -> R(TRUE, coll)

\* ------------------------------------------------------ the settings store
\* Faulty variant: _get_lastts that never finds the stored value.
get_lastts_none(store, id) == None

\* _get_lastts: find_one({'_id': self._lastts_id}); None when not found.
get_lastts(store, id) == store[id]

\* Faulty variant: the update is sent without upsert=True and writes
\* nothing when the row is not there yet.
update_lastts_noupsert(store, id, value, state) ==
    IF state = "up" /\ store[id] # None THEN [store EXCEPT ![id] = value]
    ELSE store

\* Faulty variant: the save does not select the row by _id and writes the
\* value on every row of the settings collection.
update_lastts_shared(store, id, value, state) ==
    IF state = "up" THEN [i \in DOMAIN store |-> value] ELSE store

\* _update_lastts: update({'_id': id}, {'$set': {'value': ts}}, upsert=True).
\* It is sent without safe=True: a destination that rejects the write does
\* not make the call raise, only a destination that cannot be reached does.
update_lastts_raises(state) == state = "down"
update_lastts(store, id, value, state) ==
    IF state = "up" THEN [store EXCEPT ![id] = value] ELSE store

\* ------------------------------------------------------------------- Init
Init ==
    /\ oplog = <<>>
    /\ sourcedb = EmptyColl
    /\ dest = EmptyColl
    /\ settings = [i \in LastTsIds |-> None]
    /\ deststate = "up"
    /\ firstrun \in {"FromBeginning", "FromNow"}
    /\ lastts_id = "testsource-lastts"
    /\ pc = "constructed"
    /\ running = FALSE
    /\ ts = None
    /\ cur = None
    /\ replay_count = 0
    /\ observations = 0
    /\ count = <<>>
    /\ runs = 1
    /\ applied = None
    /\ redelivered = FALSE
    /\ firstresume = None
    /\ failedop = None
    /\ clean = TRUE
    /\ skipped = FALSE
    /\ midstream = FALSE

\* ------------------------------------------------------------- the source
\* A write on the source collection; it reaches the oplog only when it
\* does something there (an insert of a new _id, an update or a remove of
\* a document that exists).
\* A command (op "c") changes no document of the collection and is always
\* logged.
source_write(coll, raw) ==
    CASE raw.op = "d" -> [coll EXCEPT ![raw.id] = Absent]
      [] raw.op \in {"i", "u"} -> [coll EXCEPT ![raw.id] = raw.o]
      [] OTHER -> coll

Logged(raw) ==
    CASE raw.op = "i" -> sourcedb[raw.id] = Absent
      [] raw.op \in {"u", "d"} -> sourcedb[raw.id] # Absent
      [] OTHER -> TRUE

Command == [op |-> "c", id |-> 1, o |-> Absent]

SourceRecords ==
    {[op |-> "i", id |-> i, o |-> v] : i \in Ids, v \in Vals}
    \cup {[op |-> "u", id |-> i, o |-> NewContent] : i \in Ids}
    \cup {[op |-> "d", id |-> i, o |-> Absent] : i \in Ids}
    \cup {Command}

SourceWrite ==
    /\ Len(oplog) < MaxOps
    /\ \E raw \in SourceRecords :
          /\ Logged(raw)
          /\ oplog' = Append(oplog, raw)
          /\ sourcedb' = source_write(sourcedb, raw)
    /\ UNCHANGED <<dest, settings, deststate, firstrun, pc, running, ts, cur,
                   replay_count, lastts_id, observations, count, runs>>
    /\ UNCHANGED histvars

\* -------------------------------------------------------------- the engine
\* OplogReplayer.__init__: a new instance reads the stored lastts (it is
\* created once the destination can be read).
Construct ==
    /\ pc \in {"stopped", "failed", "dead"}
    /\ runs < MaxRuns
    /\ ts' = get_lastts(settings, lastts_id)
    /\ replay_count' = 0
    /\ running' = FALSE
    /\ cur' = None
    /\ pc' = "constructed"
    /\ runs' = runs + 1
    /\ UNCHANGED <<dest, settings, deststate, firstrun, lastts_id,
                   observations, count>>
    /\ UNCHANGED envvars
    /\ UNCHANGED histvars

\* start(): with no ts the feed is opened at the beginning or at the end of
\* the oplog, otherwise after ts.
ResumeTs(t) == IF t = None /\ firstrun = "FromNow" THEN Len(oplog) ELSE t

Start ==
    /\ pc = "constructed"
    /\ ts' = ResumeTs(ts)
    /\ running' = TRUE
    /\ pc' = "loop"
    /\ firstresume' = IF runs = 1 THEN ts' ELSE firstresume
    /\ UNCHANGED <<dest, settings, firstrun, cur, replay_count, lastts_id,
                   observations, count, runs>>
    /\ skipped' = (skipped \/ (runs > 1 /\ ts' > applied))
    /\ UNCHANGED <<oplog, sourcedb, deststate>>
    /\ UNCHANGED <<applied, redelivered, failedop, clean, midstream>>

\* The loop reads the next record of the feed: the first one after ts.
ReadOp ==
    /\ pc = "loop"
    /\ running
    /\ Len(oplog) > ts
    /\ cur' = ts + 1
    /\ pc' = "process_op"
    /\ failedop' = None
    /\ UNCHANGED <<dest, settings, firstrun, running, ts, replay_count,
                   lastts_id, observations, count, runs>>
    /\ UNCHANGED <<oplog, sourcedb, deststate>>
    /\ UNCHANGED <<applied, redelivered, firstresume, clean, skipped, midstream>>

\* stop(): asks the loop to end.
Stop ==
    /\ pc \in {"loop", "process_op", "update_lastts"}
    /\ running
    /\ running' = FALSE
    /\ UNCHANGED <<dest, settings, firstrun, pc, ts, cur, replay_count,
                   lastts_id, observations, count, runs>>
    /\ UNCHANGED <<oplog, sourcedb, deststate>>
    /\ UNCHANGED histvars

\* The loop sees the stop flag between two records and start() returns.
ObserveStop ==
    /\ pc = "loop"
    /\ ~running
    /\ pc' = "stopped"
    /\ UNCHANGED <<dest, settings, firstrun, running, ts, cur, replay_count,
                   lastts_id, observations, count, runs>>
    /\ UNCHANGED <<oplog, sourcedb, deststate>>
    /\ midstream' = IF runs = 1 THEN replay_count > 0 ELSE midstream
    /\ UNCHANGED <<applied, redelivered, firstresume, failedop, clean, skipped>>

\* The applier call of process_op on a destination in the given state.
applier(coll, raw, state) ==
    IF state # "up" THEN R(TRUE, coll) ELSE apply_op(coll, raw)

\* Faulty variant: an error of the applier is swallowed and the record is
\* tried again.
ProcessOp_retries ==
    /\ pc = "process_op"
    /\ \E state \in DestStates : deststate' = state
    /\ LET out == applier(dest, oplog[cur], deststate') IN
          IF out.raised
          THEN /\ pc' = "process_op"
               /\ UNCHANGED <<dest, ts, applied, redelivered, failedop, clean>>
          ELSE /\ dest' = out.coll
               /\ ts' = cur
               /\ pc' = "update_lastts"
               /\ applied' = cur
               /\ redelivered' = (cur <= applied)
               /\ UNCHANGED <<failedop, clean>>
    /\ UNCHANGED <<settings, firstrun, running, cur, replay_count, lastts_id,
                   observations, count, runs, firstresume, skipped,
                   midstream>>
    /\ UNCHANGED envvars

\* Faulty variant: process_op that saves the lastts of the record before it calls
\* the applier.
ProcessOp_saves_first ==
    /\ pc = "process_op"
    /\ \E state \in DestStates : deststate' = state
    /\ LET out == applier(dest, oplog[cur], deststate') IN
          IF out.raised
          THEN /\ pc' = "failed"
               /\ failedop' = IF deststate' # "up" THEN cur ELSE None
               /\ clean' = FALSE
               /\ UNCHANGED <<dest, ts, applied, redelivered>>
          ELSE /\ dest' = out.coll
               /\ ts' = cur
               /\ pc' = "update_lastts"
               /\ applied' = cur
               /\ redelivered' = (cur <= applied)
               /\ UNCHANGED <<failedop, clean>>
    /\ settings' = [settings EXCEPT ![lastts_id] = cur]
    /\ UNCHANGED <<firstrun, running, cur, replay_count, lastts_id,
                   observations, count, runs, firstresume, skipped,
                   midstream>>
    /\ UNCHANGED envvars

\* process_op, line 50: OplogWatcher.process_op calls the applier; when it
\* raises the exception leaves process_op and start().
ProcessOp ==
    /\ pc = "process_op"
    /\ \E state \in DestStates : deststate' = state
    /\ LET out == applier(dest, oplog[cur], deststate') IN
          IF out.raised
          THEN /\ pc' = "failed"
               /\ failedop' = IF deststate' # "up" THEN cur ELSE None
               /\ clean' = FALSE
               /\ UNCHANGED <<dest, ts, applied, redelivered>>
          ELSE /\ dest' = out.coll
               /\ ts' = cur
               /\ pc' = "update_lastts"
               /\ applied' = cur
               /\ redelivered' = (cur <= applied)
               /\ UNCHANGED <<failedop, clean>>
    /\ UNCHANGED <<settings, firstrun, running, cur, replay_count, lastts_id,
                   observations, count, runs, firstresume, skipped,
                   midstream>>
    /\ UNCHANGED envvars

\* process_op, lines 52-55: _update_lastts, then the counter and the
\* replication info every LogEvery ops.
UpdateLastts ==
    /\ pc = "update_lastts"
    /\ \E state \in DestStates : deststate' = state
    /\ IF update_lastts_raises(deststate')
       THEN /\ pc' = "failed"
            /\ clean' = FALSE
            /\ UNCHANGED <<settings, replay_count, observations, count, cur>>
       ELSE /\ settings' = update_lastts(settings, lastts_id, ts, deststate')
            /\ replay_count' = replay_count + 1
            /\ observations' = IF replay_count' % LogEvery = 0
                               THEN observations + 1 ELSE observations
            /\ count' = Append(count, cur)
            /\ cur' = None
            /\ pc' = "loop"
            /\ clean' = (clean /\ deststate' = "up")
    /\ UNCHANGED <<dest, firstrun, running, ts, lastts_id, runs>>
    /\ UNCHANGED envvars
    /\ UNCHANGED <<applied, redelivered, firstresume, failedop, skipped,
                   midstream>>

\* The process dies while start() runs: everything but the two stores is
\* lost.
Crash ==
    /\ pc \in {"loop", "process_op", "update_lastts"}
    /\ pc' = "dead"
    /\ running' = FALSE
    /\ ts' = None
    /\ cur' = None
    /\ replay_count' = 0
    /\ clean' = FALSE
    /\ UNCHANGED <<dest, settings, firstrun, lastts_id, observations, count,
                   runs>>
    /\ UNCHANGED <<oplog, sourcedb, deststate>>
    /\ UNCHANGED <<applied, redelivered, firstresume, failedop, skipped,
                   midstream>>

Next ==
    \/ SourceWrite
    \/ Construct
    \/ Start
    \/ ReadOp
    \/ Stop
    \/ ObserveStop
    \/ ProcessOp
    \/ UpdateLastts
    \/ Crash

Spec == Init /\ [][Next]_vars

TypeOK ==
    /\ Len(oplog) <= MaxOps
    /\ ts \in 0..MaxOps
    /\ runs \in 1..MaxRuns

\* ------------------------------------------------------------ vocabulary
\* The stored lastts of this replica set.
Stored == settings[lastts_id]
\* The record being processed.
Raw == oplog[cur]
\* The applier call of the record being processed returns or raises.
ApplierStep == pc = "process_op" /\ pc' \in {"update_lastts", "failed"}
\* The rest of process_op runs after the applier call.
SaveStep == pc = "update_lastts" /\ pc' \in {"loop", "failed"}
\* The feed has nothing left and no record is being processed.
Drained == pc = "loop" /\ ts = Len(oplog)
\* <<a + 1, ..., b>>
Range(a, b) == [k \in 1..(b - a) |-> a + k]

\* C1: the lastts of a record is saved only after its applier call has
\* returned, and before the next record is read: the stored lastts is never
\* ahead of the last applied record, never the ts of the record being
\* processed, and when a record is read after another one of this run on a
\* destination that took the write, the stored lastts is its predecessor's.
C1_SaveAfterApply ==
    /\ Stored <= applied
    /\ pc \in {"process_op", "update_lastts"} => Stored < cur
    /\ (pc = "process_op" /\ replay_count > 0 /\ deststate = "up")
          => Stored = cur - 1

C1_Witness ==
    pc = "process_op" /\ replay_count > 0 /\ deststate = "up" /\ Stored = 2

\* C2 as stated: the stored lastts always equals the ts of the most
\* recently applied record.
C2_Original == Stored = applied

\* C2 amended: the stored lastts never decreases, is never later than the ts
\* of the most recently applied record, and equals it after every save the
\* destination took.
C2_Monotone ==
    [][/\ Stored' >= Stored
       /\ Stored' <= applied'
       /\ (SaveStep /\ deststate' = "up") => Stored' = applied']_vars

C2_Witness ==
    runs = 2 /\ pc = "update_lastts" /\ Stored # None /\ Stored < applied

\* C3: after a clean stop in mid-stream and a restart, once the feed is
\* drained every record since the first start was processed exactly once,
\* in order, over both runs.
C3_ExactlyOnce ==
    (clean /\ midstream /\ runs >= 2 /\ Drained)
        => count = Range(firstresume, Len(oplog))

C3_Witness ==
    /\ clean /\ midstream /\ runs >= 2 /\ Drained
    /\ replay_count > 0 /\ replay_count < Len(count)

\* C4: records are applied in the order of the oplog, each applier call is
\* for the record right after the last one of this run (or after the resume
\* point), and once the whole oplog has been replayed and the feed is
\* drained the destination equals the source.
C4_InOrder ==
    [][/\ ApplierStep => cur = ts + 1
       /\ applied' # applied => applied' = ts + 1
       /\ (firstresume = None /\ ~skipped /\ Drained) => dest = sourcedb]_vars

C4_Witness ==
    /\ firstresume = None /\ ~skipped /\ Drained /\ Len(oplog) = MaxOps
    /\ \E k \in 1..Len(oplog) : oplog[k].op = "d"
    /\ dest # EmptyColl

\* C5: an insert record whose _id is already on the destination is applied
\* with success and leaves the destination as it was.
C5_IdempotentInsert ==
    [][(ApplierStep /\ Raw.op = "i" /\ dest[Raw.id] # Absent
           /\ deststate' = "up")
          => (pc' = "update_lastts" /\ dest' = dest)]_vars

\* C6: an update record that matches nothing on the destination leaves the
\* destination as it was, raises nothing, and its ts is saved as lastts.
C6_UpdateNoMatch ==
    [][/\ (ApplierStep /\ Raw.op = "u" /\ dest[Raw.id] = Absent
              /\ deststate' = "up")
          => (pc' = "update_lastts" /\ dest' = dest)
       /\ (SaveStep /\ Raw.op = "u" /\ dest[Raw.id] = Absent
              /\ deststate' = "up")
          => (pc' = "loop" /\ Stored' = cur)]_vars

C6_Witness ==
    /\ pc = "loop" /\ Stored = Len(oplog) /\ Stored # None
    /\ oplog[Stored].op = "u" /\ dest[oplog[Stored].id] = Absent

\* C7: an update or a delete record applied a second time in a row leaves
\* the destination as the first time did, and a delete that matches nothing
\* is a success that changes nothing.
C7_IdempotentUpdateDelete ==
    [][/\ (ApplierStep /\ cur = applied /\ Raw.op \in {"u", "d"}
              /\ deststate' = "up")
          => (pc' = "update_lastts" /\ dest' = dest)
       /\ (ApplierStep /\ Raw.op = "d" /\ dest[Raw.id] = Absent
              /\ deststate' = "up")
          => (pc' = "update_lastts" /\ dest' = dest)]_vars

C7_Witness ==
    pc = "update_lastts" /\ redelivered /\ Raw.op = "d" /\ applied = cur

\* C8: when the destination refuses an applier call the engine stops, the
\* stored lastts and the counters stay as they were, nothing else is
\* applied, and the next run (one that resumes from a stored lastts or from
\* the beginning) first processes that same record.
C8_ApplierFailure ==
    [][/\ (ApplierStep /\ deststate' # "up")
          => /\ pc' = "failed"
             /\ Stored' = Stored
             /\ replay_count' = replay_count
             /\ count' = count
             /\ dest' = dest
       /\ pc = "failed" => dest' = dest
       /\ (pc = "loop" /\ pc' = "process_op" /\ failedop # None
              /\ (firstrun = "FromBeginning" \/ Stored # None))
          => cur' = failedop]_vars

\* C9: a lastts save the destination does not take is fatal: start() ends
\* with the error, the counters are not incremented and no further record
\* is read.
C9_SaveFailureFatal ==
    [][(SaveStep /\ deststate' # "up")
          => /\ pc' = "failed"
             /\ replay_count' = replay_count
             /\ count' = count]_vars

\* C10: a record that was applied but whose lastts was not stored is applied
\* again with success after a restart, whatever its kind.
C10_HarmlessReapply ==
    [][(ApplierStep /\ cur <= applied /\ runs > 1 /\ deststate' = "up")
          => pc' = "update_lastts"]_vars

\* C11: a record whose kind is not insert, update or delete ends the run:
\* nothing is applied for it, and the stored lastts, self.ts and the
\* counters stay where they were, so it is not skipped.
C11_UnknownKindFatal ==
    [][(ApplierStep /\ Raw.op \notin {"i", "u", "d"})
          => /\ pc' = "failed"
             /\ Stored' = Stored
             /\ ts' = ts
             /\ replay_count' = replay_count
             /\ count' = count
             /\ dest' = dest]_vars

C11_Witness ==
    /\ pc = "failed" /\ cur = 2 /\ Raw.op = "c" /\ deststate = "up"
    /\ Stored = 1 /\ replay_count = 1

\* C12: when start() has returned after a stop request no record is half
\* done, and if this run applied a record the stored lastts is the ts of the
\* last applied record.
C12_StoppedIsCheckpointed ==
    pc = "stopped" => (cur = None /\ (replay_count > 0 => Stored = applied))

\* ------------------------------------------------------------- run state
\* The states of the thread inside the loop of start().
LoopStates == {"loop", "process_op", "update_lastts"}

\* Stopped | Running | StopRequested
RunState ==
    IF pc \notin LoopStates THEN "Stopped"
    ELSE IF running THEN "Running" ELSE "StopRequested"

\* The steps of the thread of start(). The thread keeps running: when it can
\* take a step it takes one.
Thread == ReadOp \/ ProcessOp \/ UpdateLastts \/ ObserveStop

FairSpec == Spec /\ WF_vars(Thread)

\* C13 as stated, for the run state: it only moves Stopped -> Running ->
\* StopRequested -> Stopped (the death of the process left aside).
C13_OnlyCycle ==
    [][(RunState' # RunState /\ pc' # "dead")
          => <<RunState, RunState'>> \in
                {<<"Stopped", "Running">>, <<"Running", "StopRequested">>,
                 <<"StopRequested", "Stopped">>}]_vars

\* C13 amended: after stop() the engine reaches Stopped, with a record in
\* flight or waiting on an empty feed, and the run state moves Stopped ->
\* Running -> StopRequested -> Stopped, or from Running straight to Stopped
\* when a failure ends start() or the process dies.
C13_StopTerminates ==
    /\ (RunState = "StopRequested") ~> (RunState = "Stopped")
    /\ [][RunState' # RunState
             => \/ <<RunState, RunState'>> \in
                     {<<"Stopped", "Running">>, <<"Running", "StopRequested">>,
                      <<"StopRequested", "Stopped">>}
                \/ /\ RunState = "Running" /\ RunState' = "Stopped"
                   /\ pc' \in {"failed", "dead"}]_vars

C13_Witness ==
    pc = "stopped" /\ replay_count > 0 /\ Len(oplog) > ts

\* C14: while the engine is running and neither the applier nor the
\* checkpoint save fails, every record emitted after the resume point is
\* eventually applied, also one emitted while the consumer is working; an
\* empty feed is not an error, the engine stays in its loop and waits.
C14_EventuallyApplied ==
    /\ \A k \in 1..MaxOps :
          (RunState = "Running" /\ Len(oplog) >= k /\ ts < k)
             ~> \/ pc = "update_lastts" /\ cur = k
                \/ RunState # "Running"
    /\ [][(Drained /\ running) => pc' \in {"loop", "dead"}]_vars

C14_Witness ==
    /\ firstrun = "FromNow" /\ runs = 1 /\ firstresume = 1
    /\ RunState = "Running" /\ pc = "update_lastts" /\ cur = 3

\* C15: an engine started with a stored checkpoint T applies no record at
\* or before T: the record handed to the applier is always later than the
\* checkpoint stored at that moment, and that one is T until the first save
\* of the run and never earlier than T afterwards.
C15_ResumeAfterCheckpoint ==
    (pc = "process_op" /\ Stored # None) => cur > Stored

C15_Witness ==
    /\ runs = 2 /\ replay_count = 0 /\ Stored = 1
    /\ pc = "update_lastts" /\ cur = 2 /\ ts = 2

\* The source collection after the first k records of the oplog.
RECURSIVE SourceAfter(_)
SourceAfter(k) ==
    IF k = 0 THEN EmptyColl ELSE source_write(SourceAfter(k - 1), oplog[k])

\* C16: when start() has ended on an error the destination is the source as
\* it was after some prefix of the oplog (for a destination that was replayed
\* from the beginning of the oplog).
C16_PrefixOnError ==
    (pc = "failed" /\ firstresume = None /\ ~skipped)
       => \E k \in 0..Len(oplog) : dest = SourceAfter(k)

\* ------------------------------------------------------ a second pipeline
\* The row of an engine built for another replica set.
OtherLastTsId == "other-lastts"

\* The engine of the other replica set saves its lastts, a position in the
\* oplog of its own source, with the same _update_lastts.
OtherSave ==
    /\ \E value \in 1..MaxOther, state \in DestStates :
          /\ value > settings[OtherLastTsId]
          /\ settings' = update_lastts(settings, OtherLastTsId, value, state)
    /\ UNCHANGED <<dest, deststate, firstrun, pc, running, ts, cur,
                   replay_count, lastts_id, observations, count, runs>>
    /\ UNCHANGED envvars
    /\ UNCHANGED histvars

TwoNext == Next \/ OtherSave

TwoSpec == Init /\ [][TwoNext]_vars

\* C17: two engines with different source identities keep apart: a save of
\* one never changes the row of the other, and an engine loads its ts from
\* its own row whatever the other row holds.
C17_RowsApart ==
    [][/\ settings'[OtherLastTsId] # settings[OtherLastTsId]
             => (Stored' = Stored /\ ts' = ts /\ pc' = pc)
       /\ (pc' # pc \/ Stored' # Stored)
             => settings'[OtherLastTsId] = settings[OtherLastTsId]
       /\ pc' = "constructed" => ts' = Stored]_vars

C17_Witness ==
    /\ Stored = 2 /\ settings[OtherLastTsId] = 1
    /\ runs = 2 /\ pc = "constructed" /\ ts = 2

\* C18: the save is an idempotent upsert: a save the destination takes
\* leaves the engine's row holding the saved ts, creating the row when it is
\* not there and changing no other row, and saving the same ts once more
\* changes nothing; loading the lastts of a replica set that never saved one
\* gives None and leaves the settings collection as it was.
C18_IdempotentUpsert ==
    [][/\ (SaveStep /\ deststate' = "up")
          => /\ settings' = [settings EXCEPT ![lastts_id] = ts]
             /\ get_lastts(settings', lastts_id) = ts
             /\ update_lastts(settings', lastts_id, ts, "up") = settings'
       /\ (pc # "constructed" /\ pc' = "constructed")
          => /\ settings' = settings
             /\ Stored = None => ts' = None]_vars

C18_Witness ==
    /\ runs = 2 /\ pc = "loop" /\ Stored = 1 /\ replay_count = 1
    /\ firstresume = None /\ Len(count) = 2

\* ---------------------------------------------------------- a long oplog
\* The oplog after bulk writes on the source: one document inserted and
\* removed over and over.
BulkOplog ==
    [k \in 1..BulkOps |->
        IF k % 2 = 1 THEN [op |-> "i", id |-> 1, o |-> "a"]
        ELSE [op |-> "d", id |-> 1, o |-> Absent]]

\* A first engine on an empty destination, the bulk writes already in the
\* oplog.
BulkInit ==
    /\ oplog = BulkOplog
    /\ sourcedb = IF BulkOps % 2 = 1 THEN [EmptyColl EXCEPT ![1] = "a"]
                  ELSE EmptyColl
    /\ dest = EmptyColl
    /\ settings = [i \in LastTsIds |-> None]
    /\ deststate = "up"
    /\ firstrun = "FromBeginning"
    /\ lastts_id = "testsource-lastts"
    /\ pc = "constructed"
    /\ running = FALSE
    /\ ts = None
    /\ cur = None
    /\ replay_count = 0
    /\ observations = 0
    /\ count = <<>>
    /\ runs = 1
    /\ applied = None
    /\ redelivered = FALSE
    /\ firstresume = None
    /\ failedop = None
    /\ clean = TRUE
    /\ skipped = FALSE
    /\ midstream = FALSE

BulkNext ==
    \/ Start
    \/ ReadOp
    \/ Stop
    \/ ObserveStop
    \/ ProcessOp
    \/ UpdateLastts
    \/ Crash

BulkSpec == BulkInit /\ [][BulkNext]_vars

\* C19: the replication info is logged exactly when the counter, after its
\* increment for a record, is a positive multiple of 100, in the step that
\* stored that record's lastts and incremented the counter, and never for a
\* record whose apply or save failed.
C19_ProgressEvery100 ==
    [][/\ observations' # observations
             <=> /\ replay_count' = replay_count + 1
                 /\ replay_count' > 0
                 /\ replay_count' % LogEvery = 0
       /\ observations' # observations
             => /\ SaveStep /\ pc' = "loop"
                /\ observations' = observations + 1
                /\ Stored' = ts]_vars

\* C20: _replay_count is the number of records of this instance for which
\* both the applier call and the lastts save succeeded: it is 0 in a new
\* instance, whatever lastts is stored, it grows by one exactly in the step
\* that stored the lastts of an applied record, and changes in no other
\* step of the instance.
C20_CountsApplied ==
    [][/\ (pc # "constructed" /\ pc' = "constructed")
             => (replay_count' = 0 /\ Stored' = Stored)
       /\ replay_count' # replay_count
             => \/ pc' \in {"constructed", "dead"}
                \/ /\ replay_count' = replay_count + 1
                   /\ SaveStep /\ applied = ts /\ Stored' = ts
       /\ (SaveStep /\ pc' = "loop") => replay_count' = replay_count + 1
       /\ pc' = "failed" => replay_count' = replay_count]_vars
====
